---- MODULE Spec2Model ----
(***************************************************************************)
(* Model of app.py: the redirect-chain tracer (check_redirection_chain),   *)
(* the server classification (get_server_name), the input filter           *)
(* (urls_unique) and the ThreadPoolExecutor dispatch / collection loop.    *)
(*                                                                         *)
(* Strings the program inspects (URLs, header values) are sequences of     *)
(* tokens, so that startswith, lower, "in" and urljoin are computed and     *)
(* two URLs are the same exactly when they are the same text.              *)
(*   "https://a.test/old"  is  <<"https:", "//", "a.test", "/", "old">>     *)
(*   "//b.test/old"        is  <<"//", "b.test", "/", "old">>               *)
(*   "/new-path"           is  <<"/", "new-path">>                          *)
(*   "step2"               is  <<"step2">>          ""  is  << >>           *)
(***************************************************************************)
EXTENDS Integers, Sequences, FiniteSets, Bags, TLC

\* ------------------------------------------------------------------ bounds

\* Longest input list the caller supplies.
MaxUrls == 3

\* Pool size. app.py sets 20; the model runs the same pool with fewer
\* workers so that MaxUrls inputs can saturate it.
MAX_WORKERS == 2

\* Deepest path the redirecting server of PathologicalSpec hands out before
\* it answers 200 (the tracer itself has no such limit).
MaxFresh == 52

\* Most header fields in one response of ServerSpec.
MaxHeaders == 2

\* ----------------------------------------------------------------- strings

SchemeTokens == {"https:", "http:"}

Abs(host, seg) == <<"https:", "//", host, "/", seg>>

\* str.lower(), token by token.
LowerTok(t) ==
    CASE t = "B2B-B.test"          -> "b2b-b.test"
      [] t = "AkamaiGHost"         -> "akamaighost"
      [] t = "AKAMAIGHOST"         -> "akamaighost"
      [] t = "X-Akamai-Transformed" -> "x-akamai-transformed"
      [] t = "Server"              -> "server"
      [] t = "X-Powered-By"        -> "x-powered-by"
      [] t = "X-Cache"             -> "x-cache"
      [] t = "Via"                 -> "via"
      [] t = "CF-RAY"              -> "cf-ray"
      [] t = "X-Amz-Cf-Id"         -> "x-amz-cf-id"
      [] t = "X-CDN"               -> "x-cdn"
      [] t = "Location"            -> "location"
      [] t = "HIT"                 -> "hit"
      [] OTHER                     -> t

lower(s) == [i \in 1..Len(s) |-> LowerTok(s[i])]

\* The needles the program searches for that occur inside a (lower-case) token.
NeedlesIn(t) ==
    CASE t = "b2b-b.test"               -> {"b2b-b"}
      [] t = "akamaighost"              -> {"akamaighost"}
      [] t = "edge.akamaitechnologies.com" -> {"akamaitechnologies.com"}
      [] t = "x-akamai-transformed"     -> {"x-akamai-transformed"}
      [] OTHER                          -> {}

\* needle in s
Contains(s, needle) == \E i \in 1..Len(s) : needle \in NeedlesIn(s[i])

\* s.startswith('/')
StartsWithSlash(s) == Len(s) > 0 /\ s[1] \in {"/", "//"}

\* ------------------------------------------------------------------ urljoin

SubSeqFrom(s, i) == IF i > Len(s) THEN << >> ELSE SubSeq(s, i, Len(s))

\* urlparse: scheme, netloc and path of a URL text.
UrlScheme(s) == IF Len(s) > 0 /\ s[1] \in SchemeTokens THEN s[1] ELSE ""
AfterScheme(s) == IF UrlScheme(s) = "" THEN s ELSE Tail(s)
HasNetloc(s) == Len(AfterScheme(s)) > 1 /\ AfterScheme(s)[1] = "//"
UrlNetloc(s) == IF HasNetloc(s) THEN AfterScheme(s)[2] ELSE ""
UrlPath(s) == IF HasNetloc(s) THEN SubSeqFrom(AfterScheme(s), 3) ELSE AfterScheme(s)

\* urlunparse
Unparse(scheme, netloc, path) ==
    (IF scheme = "" THEN << >> ELSE <<scheme>>)
    \o (IF netloc = "" THEN << >> ELSE <<"//", netloc>>)
    \o path

\* The segments of a path ("/a/b" -> <<"a","b">>) and back.
IsSegment(t) == t # "/"
Segments(p) == SelectSeq(p, IsSegment)

JoinSegments(segs) ==
    [k \in 1..(2 * Len(segs)) |-> IF k % 2 = 1 THEN "/" ELSE segs[k \div 2]]

\* Dot-segment removal of RFC 3986, as urljoin does it.
RECURSIVE RemoveDotsFrom(_, _)
RemoveDotsFrom(segs, acc) ==
    IF segs = << >> THEN acc
    ELSE IF Head(segs) = ".."
         THEN RemoveDotsFrom(Tail(segs),
                             IF acc = << >> THEN acc ELSE SubSeq(acc, 1, Len(acc) - 1))
    ELSE IF Head(segs) = "." THEN RemoveDotsFrom(Tail(segs), acc)
    ELSE RemoveDotsFrom(Tail(segs), Append(acc, Head(segs)))

RemoveDots(segs, acc) ==
    IF \A k \in 1..Len(segs) : segs[k] \notin {".", ".."}
    THEN acc \o segs
    ELSE RemoveDotsFrom(segs, acc)

DropLast(s) == IF s = << >> THEN s ELSE SubSeq(s, 1, Len(s) - 1)

\* urllib.parse.urljoin(base, url)
urljoin(base, url) ==
    IF base = << >> THEN url
    ELSE IF url = << >> THEN base
    ELSE IF UrlScheme(url) # "" /\ UrlScheme(url) # UrlScheme(base) THEN url
    ELSE IF HasNetloc(url)
         THEN Unparse(UrlScheme(base), UrlNetloc(url),
                      JoinSegments(RemoveDots(Segments(UrlPath(url)), << >>)))
    ELSE IF UrlPath(url)[1] = "/"
         THEN Unparse(UrlScheme(base), UrlNetloc(base),
                      JoinSegments(RemoveDots(Segments(UrlPath(url)), << >>)))
    ELSE Unparse(UrlScheme(base), UrlNetloc(base),
                 JoinSegments(RemoveDots(DropLast(Segments(UrlPath(base)))
                                         \o Segments(UrlPath(url)), << >>)))

\* A URL requests can send: it has a scheme and a host.
IsAbsolute(s) == UrlScheme(s) # "" /\ HasNetloc(s)

\* ------------------------------------------------------------------ headers

\* Response headers are the (name, value) pairs in the order received;
\* a value is a string (a sequence of tokens).

\* key in headers  (requests' CaseInsensitiveDict)
HasHeader(headers, key) ==
    \E i \in 1..Len(headers) : LowerTok(headers[i][1]) = LowerTok(key)

\* headers[key]
HeaderValue(headers, key) ==
    headers[CHOOSE i \in 1..Len(headers) : LowerTok(headers[i][1]) = LowerTok(key)][2]

\* " | ".join(f"{k}: {v}" for k, v in headers.items())
RECURSIVE combined_headers(_)
combined_headers(headers) ==
    IF headers = << >> THEN << >>
    ELSE <<headers[1][1], ": ">> \o headers[1][2]
         \o (IF Len(headers) > 1 THEN <<" | ">> ELSE << >>)
         \o combined_headers(Tail(headers))

akamai_indicators == <<"AkamaiGHost", "akamaitechnologies.com", "X-Akamai-Transformed">>

server_headers_priority ==
    <<"Server", "X-Powered-By", "X-Cache", "Via", "CF-RAY", "X-Amz-Cf-Id", "X-CDN">>

\* The first key of the priority list that the headers hold, 0 when none.
FirstPresent(headers) ==
    IF \E k \in 1..Len(server_headers_priority) : HasHeader(headers, server_headers_priority[k])
    THEN CHOOSE k \in 1..Len(server_headers_priority) :
            /\ HasHeader(headers, server_headers_priority[k])
            /\ \A j \in 1..(k - 1) : ~HasHeader(headers, server_headers_priority[j])
    ELSE 0

\* Variant: the priority list is consulted before the Akamai markers.
get_server_name_PriorityFirst(headers) ==
    IF FirstPresent(headers) # 0
    THEN <<server_headers_priority[FirstPresent(headers)], ": ">>
         \o HeaderValue(headers, server_headers_priority[FirstPresent(headers)])
    ELSE IF \E m \in 1..Len(akamai_indicators) :
               Contains(lower(combined_headers(headers)), LowerTok(akamai_indicators[m]))
         THEN <<"Akamai">>
    ELSE <<"Unknown">>

get_server_name(headers) ==
    IF \E m \in 1..Len(akamai_indicators) :
          Contains(lower(combined_headers(headers)), LowerTok(akamai_indicators[m]))
    THEN <<"Akamai">>
    ELSE IF FirstPresent(headers) # 0
         THEN <<server_headers_priority[FirstPresent(headers)], ": ">>
              \o HeaderValue(headers, server_headers_priority[FirstPresent(headers)])
    ELSE <<"Unknown">>

\* ------------------------------------------------------------------- hops

\* 'Status Code' is an int or one of the strings 'Loop', 'Error'.
IntCode(n) == [kind |-> "int", n |-> n, s |-> ""]
StrCode(s) == [kind |-> "str", n |-> 0, s |-> s]

status_names(status) ==
    CASE status = 200 -> "OK"
      [] status = 301 -> "Moved Permanently"
      [] status = 302 -> "Found"
      [] status = 303 -> "See Other"
      [] status = 307 -> "Temporary Redirect"
      [] status = 308 -> "Permanent Redirect"
      [] status = 400 -> "Bad Request"
      [] status = 401 -> "Unauthorized"
      [] status = 403 -> "Forbidden"
      [] status = 404 -> "Not Found"
      [] status = 500 -> "Internal Server Error"
      [] OTHER        -> "Unknown"

Hop(url, status, code, server) ==
    [URL |-> url, Status |-> status, StatusCode |-> code, Server |-> server]

\* Variant: the revisit is recorded as an error.
LoopHop_AsError(url) == Hop(url, "Error", StrCode("Error"), <<"N/A">>)

\* Variant: the revisit is labelled 'Redirect Loop'.
LoopHop_RedirectLoop(url) == Hop(url, "Redirect Loop", StrCode("Loop"), <<"N/A">>)

\* Lines 75-81
LoopHop(url) == Hop(url, "Loop detected", StrCode("Loop"), <<"N/A">>)
ErrorHop(url) == Hop(url, "Error", StrCode("Error"), <<"N/A">>)
ResponseHop(url, resp) ==
    Hop(url, status_names(resp.status), IntCode(resp.status), get_server_name(resp.headers))

\* status in (301, 302, 303, 307, 308)
RedirectCodes == {301, 302, 303, 307, 308}

\* Variant: any response that names a Location is followed.
IsRedirect_ByLocation(status) == TRUE

IsRedirect(status) == status \in RedirectCodes

\* Variant: only an absent header ends the chain (is None instead of not).
NoRedirectUrl_AbsentOnly(headers) == ~HasHeader(headers, "Location")

\* resp.headers.get('Location') is falsy: absent, or the empty string.
NoRedirectUrl(headers) ==
    ~HasHeader(headers, "Location") \/ HeaderValue(headers, "Location") = << >>

\* Lines 100-104: the URL of the next hop.
NextUrl(current, redirect_url) ==
    IF StartsWithSlash(redirect_url) THEN urljoin(current, redirect_url) ELSE redirect_url

\* ------------------------------------------------------------------ server

\* What one requests.get can come back with: an exception (fail), or a
\* response with a status code and headers.
Failure == [fail |-> TRUE, status |-> 0, headers |-> << >>]
Reply(status, headers) == [fail |-> FALSE, status |-> status, headers |-> headers]

Responses ==
    { Failure,
      Reply(200, << <<"Server", <<"nginx">>>>, <<"Location", <<"/", "new-path">>>> >>),
      Reply(404, << >>),
      Reply(304, << <<"Via", <<"varnish">>>>, <<"X-Cache", <<"HIT">>>> >>),
      Reply(301, << <<"Location", <<"/", "new-path">>>>, <<"Server", <<"AkamaiGHost">>>> >>),
      Reply(302, << <<"location", <<"//", "b.test", "/", "new-path">>>> >>),
      Reply(303, << <<"Location", Abs("a.test", "old")>> >>),
      Reply(307, << <<"Location", <<"step2">>>> >>),
      Reply(308, << <<"X-CDN", <<"edge.akamaitechnologies.com">>>> >>),
      Reply(301, << <<"Location", << >>>> >>) }

\* ------------------------------------------------------------------- state

VARIABLES
    urls,            \* the caller's list of URL strings (lines 202-217)
    urls_unique,     \* line 220
    errors_blocked,  \* line 203
    pc,              \* where the script is: "filter", "submit", "collect", "done",
                     \* "reported", "stopped"
    futures,         \* futures[i]: the URL future i was submitted with (line 239)
    fstate,          \* future i: "queued", "inflight", "returned", "raised"
    visited,         \* visited[i]: the set of task i (line 69)
    chain,           \* chain[i]: the list of task i (line 70)
    current_url,     \* current_url[i] (line 71)
    requested,       \* requested[i]: the URLs task i has passed to requests.get, in order
    served,          \* what the server has answered, per URL requested so far
    collected,       \* the futures as_completed has yielded
    results,         \* the dict of line 237
    stores,          \* stores[url]: how many times results[url] was assigned (lines 244, 246)
    summary_rows,    \* line 256: the rows appended, as a bag (their order is not kept)
    df_summary,      \* line 271: the rows left by drop_duplicates
    all_rows         \* line 273: the rows appended (each differs in URL and step)

vars == <<urls, urls_unique, errors_blocked, pc, futures, fstate, visited, chain,
          current_url, requested, served, collected, results, stores,
          summary_rows, df_summary, all_rows>>

reportVars == <<summary_rows, df_summary, all_rows>>

taskVars == <<fstate, visited, chain, current_url, requested, served>>

\* The URL strings a caller may supply.
InputUrls ==
    { Abs("a.test", "old"),
      Abs("a.test", "new-path"),
      Abs("B2B-B.test", "old"),
      <<"b.test", "/", "old">> }

RECURSIVE SeqsUpTo(_, _)
SeqsUpTo(S, n) ==
    IF n = 0 THEN {<< >>}
    ELSE LET shorter == SeqsUpTo(S, n - 1)
         IN  shorter \union {Append(q, x) : q \in {r \in shorter : Len(r) = n - 1}, x \in S}

Init ==
    /\ urls \in SeqsUpTo(InputUrls, MaxUrls)
    /\ urls_unique = << >>
    /\ errors_blocked = << >>
    /\ pc = "filter"
    /\ futures = << >>
    /\ fstate = << >>
    /\ visited = << >>
    /\ chain = << >>
    /\ current_url = << >>
    /\ requested = << >>
    /\ served = << >>
    /\ collected = {}
    /\ results = << >>
    /\ stores = << >>
    /\ summary_rows = EmptyBag
    /\ df_summary = {}
    /\ all_rows = {}

\* ------------------------------------------------------------ input filter

\* Variant: the test without lower().
is_blocked_url_CaseSensitive(url) == Contains(url, "b2b-b")

is_blocked_url(url) == Contains(lower(url), "b2b-b")

InSeq(x, s) == \E i \in 1..Len(s) : s[i] = x

\* Lines 220-225, one iteration per URL of the list.
RECURSIVE FilterLoop(_, _, _)
FilterLoop(rest, unique, blocked) ==
    IF rest = << >> THEN [unique |-> unique, blocked |-> blocked]
    ELSE IF is_blocked_url(Head(rest))
         THEN FilterLoop(Tail(rest), unique, Append(blocked, Head(rest)))
    ELSE IF ~InSeq(Head(rest), unique)
         THEN FilterLoop(Tail(rest), Append(unique, Head(rest)), blocked)
    ELSE FilterLoop(Tail(rest), unique, blocked)

\* Lines 219-232: the filter, and st.stop() when nothing is left.
Filter ==
    /\ pc = "filter"
    /\ LET r == FilterLoop(urls, << >>, << >>)
       IN  /\ urls_unique' = r.unique
           /\ errors_blocked' = r.blocked
           /\ pc' = IF r.unique = << >> THEN "stopped" ELSE "submit"
    /\ UNCHANGED <<urls, futures, fstate, visited, chain, current_url, requested,
                   served, collected, results, stores, reportVars>>

\* ------------------------------------------------------------------- pool

Tasks == DOMAIN futures

Running == {i \in Tasks : fstate[i] = "inflight"}

\* Variant: a thread per submitted item.
WorkerAvailable_Unbounded == TRUE

\* ThreadPoolExecutor(max_workers=MAX_WORKERS): a queued work item is taken
\* only by an idle worker, and there are never more than MAX_WORKERS.
WorkerAvailable == Cardinality(Running) < MAX_WORKERS

\* The work queue is first in, first out.
NextQueued(i) ==
    /\ i \in Tasks
    /\ fstate[i] = "queued"
    /\ \A j \in Tasks : j < i => fstate[j] # "queued"

\* Line 239, one executor.submit per URL; the comprehension ends after the last.
Submit ==
    /\ pc = "submit"
    /\ LET i == Len(futures) + 1
       IN  /\ futures' = Append(futures, urls_unique[i])
           /\ fstate' = Append(fstate, "queued")
           /\ visited' = Append(visited, {})
           /\ chain' = Append(chain, << >>)
           /\ current_url' = Append(current_url, << >>)
           /\ requested' = Append(requested, << >>)
           /\ pc' = IF i = Len(urls_unique) THEN "collect" ELSE "submit"
    /\ UNCHANGED <<urls, urls_unique, errors_blocked, served, collected, results, stores, reportVars>>

\* Variant: one module-level set for all tasks.
VisitedOf_Shared(i) == UNION {visited[j] : j \in Tasks}

\* The set task i tests and extends: its own (line 69).
VisitedOf(i) == visited[i]

\* Variant: the visited test is missing.
Seen_Never(vis, url) == FALSE

\* current_url in visited (line 74)
Seen(vis, url) == url \in vis

\* Variant: visited.add(current_url) of line 84 is left out.
LoopTop_NoAdd(i, url, vis, ch) ==
    /\ current_url' = [current_url EXCEPT ![i] = url]
    /\ IF Seen(vis, url)
       THEN /\ chain' = [chain EXCEPT ![i] = Append(ch, LoopHop(url))]
            /\ fstate' = [fstate EXCEPT ![i] = "returned"]
            /\ visited' = [visited EXCEPT ![i] = vis]
            /\ UNCHANGED requested
       ELSE /\ chain' = [chain EXCEPT ![i] = ch]
            /\ visited' = [visited EXCEPT ![i] = vis]
            /\ requested' = [requested EXCEPT ![i] = Append(@, url)]
            /\ fstate' = [fstate EXCEPT ![i] = "inflight"]

\* Lines 73-85: the top of the loop with current_url = url and the chain ch so
\* far, up to the return (a loop) or the call of requests.get.
LoopTop(i, url, vis, ch) ==
    /\ current_url' = [current_url EXCEPT ![i] = url]
    /\ IF Seen(vis, url)
       THEN /\ chain' = [chain EXCEPT ![i] = Append(ch, LoopHop(url))]
            /\ fstate' = [fstate EXCEPT ![i] = "returned"]
            /\ visited' = [visited EXCEPT ![i] = vis]
            /\ UNCHANGED requested
       ELSE /\ chain' = [chain EXCEPT ![i] = ch]
            /\ visited' = [visited EXCEPT ![i] = vis \union {url}]
            /\ requested' = [requested EXCEPT ![i] = Append(@, url)]
            /\ fstate' = [fstate EXCEPT ![i] = "inflight"]

\* A worker takes the work item and runs check_redirection_chain up to its
\* first request (lines 68-85).
Start(i) ==
    /\ NextQueued(i)
    /\ WorkerAvailable
    /\ LoopTop(i, futures[i], {}, << >>)
    /\ UNCHANGED <<urls, urls_unique, errors_blocked, pc, futures, served,
                   collected, results, stores, reportVars>>

\* The call fails outside the try block (lines 68-71: an unexpected failure such
\* as resource exhaustion): the future holds the exception.
Raise(i) ==
    /\ NextQueued(i)
    /\ WorkerAvailable
    /\ fstate' = [fstate EXCEPT ![i] = "raised"]
    /\ UNCHANGED <<urls, urls_unique, errors_blocked, pc, futures, visited, chain,
                   current_url, requested, served, collected, results, stores, reportVars>>

\* --------------------------------------------------- check_redirection_chain

\* Variant: no except clause; the exception leaves the function.
Except_Propagates(i) ==
    /\ fstate' = [fstate EXCEPT ![i] = "raised"]
    /\ UNCHANGED <<chain, current_url, visited, requested>>

\* Variant: the except clause returns a new list holding only the error hop.
Except_Resets(i) ==
    /\ chain' = [chain EXCEPT ![i] = <<ErrorHop(current_url[i])>>]
    /\ fstate' = [fstate EXCEPT ![i] = "returned"]
    /\ UNCHANGED <<current_url, visited, requested>>

\* Lines 107-114: the except clause, then return chain.
Except(i) ==
    /\ chain' = [chain EXCEPT ![i] = Append(@, ErrorHop(current_url[i]))]
    /\ fstate' = [fstate EXCEPT ![i] = "returned"]
    /\ UNCHANGED <<current_url, visited, requested>>

\* Lines 96-99: the loop goes on after this response.
Continues(resp) == IsRedirect(resp.status) /\ ~NoRedirectUrl(resp.headers)

\* Lines 86-106 and the next pass of lines 73-85: the response is recorded,
\* and the loop ends or goes on to the next request.
Record(i, resp) ==
    LET ch == Append(chain[i], ResponseHop(current_url[i], resp))
    IN  IF Continues(resp)
        THEN LoopTop(i, NextUrl(current_url[i], HeaderValue(resp.headers, "Location")),
                     VisitedOf(i), ch)
        ELSE /\ chain' = [chain EXCEPT ![i] = ch]
             /\ fstate' = [fstate EXCEPT ![i] = "returned"]
             /\ UNCHANGED <<current_url, visited, requested>>

\* What requests.get(current_url) may come back with: an exception for a URL
\* it cannot send, else what the server answers for that URL (the same answer
\* every time the URL is asked for in one run).
Answers(url) ==
    IF ~IsAbsolute(url) THEN {Failure}
    ELSE IF url \in DOMAIN served THEN {served[url]}
    ELSE Responses

\* Line 85 returns or raises with one of answers, and the task runs on to its
\* next request or its return (the task blocks on nothing else).
RespondWith(i, answers) ==
    /\ i \in Tasks
    /\ fstate[i] = "inflight"
    /\ \E resp \in answers :
          /\ served' = IF IsAbsolute(current_url[i])
                       THEN (current_url[i] :> resp) @@ served
                       ELSE served
          /\ IF resp.fail THEN Except(i) ELSE Record(i, resp)
    /\ UNCHANGED <<urls, urls_unique, errors_blocked, pc, futures,
                   collected, results, stores, reportVars>>

Respond(i) == RespondWith(i, IF i \in Tasks THEN Answers(current_url[i]) ELSE {})

\* --------------------------------------------------------------- collection

\* Variant: the except branch stores an empty list.
Outcome_Empty(i) ==
    IF fstate[i] = "returned" THEN chain[i] ELSE << >>

\* Variant: the except branch's hop has no 'N/A' server.
Outcome_UnknownServer(i) ==
    IF fstate[i] = "returned" THEN chain[i]
    ELSE <<Hop(futures[i], "Error", StrCode("Error"), <<"Unknown">>)>>

\* future.result() of a finished future: the chain, or the except branch's list.
Outcome(i) ==
    IF fstate[i] = "returned" THEN chain[i] ELSE <<ErrorHop(futures[i])>>

\* Variant: the key is the url left over from the filter loop of line 221.
ResultKey_Stale(i) == urls[Len(urls)]

\* url = futures[future] (line 241)
ResultKey(i) == futures[i]

\* Lines 240-253: as_completed yields a finished future, its result is stored;
\* after the last one the with block ends.
Collect(i) ==
    /\ pc = "collect"
    /\ i \in Tasks \ collected
    /\ fstate[i] \in {"returned", "raised"}
    /\ results' = (ResultKey(i) :> Outcome(i)) @@ results
    /\ stores' = (ResultKey(i) :> (IF ResultKey(i) \in DOMAIN stores
                                   THEN stores[ResultKey(i)] + 1 ELSE 1)) @@ stores
    /\ collected' = collected \union {i}
    /\ pc' = IF collected' = Tasks THEN "done" ELSE "collect"
    /\ UNCHANGED <<urls, urls_unique, errors_blocked, futures, taskVars, reportVars>>

\* ------------------------------------------------------------------ report

\* Lines 258-269: the row of one results item. The chain is never empty here
\* (the else branch of line 258 is for an empty chain).
SummaryRow(orig_url, ch) ==
    LET final_step == IF ch # << >> THEN ch[Len(ch)] ELSE ErrorHop(orig_url)
    IN  [OriginalURL |-> orig_url,
         FinalURL    |-> final_step.URL,
         StatusCode  |-> final_step.StatusCode,
         Server      |-> final_step.Server]

\* Lines 256-269: one append per item of results.
RECURSIVE SummaryRows(_)
SummaryRows(keys) ==
    IF keys = {} THEN EmptyBag
    ELSE LET k == CHOOSE u \in keys : TRUE
         IN  SummaryRows(keys \ {k}) (+) SetToBag({SummaryRow(k, results[k])})

\* Lines 276-283: the row of one step.
DetailRow(orig_url, idx, step) ==
    [OriginalURL       |-> orig_url,
     RedirectStep      |-> idx + 1,
     RedirectedURL     |-> step.URL,
     StatusCode        |-> step.StatusCode,
     StatusDescription |-> step.Status,
     Server            |-> step.Server]

\* Lines 255-285: the summary and the per-hop rows are built from results.
Report ==
    /\ pc = "done"
    /\ summary_rows' = SummaryRows(DOMAIN results)
    /\ df_summary' = BagToSet(summary_rows')
    /\ all_rows' = UNION {{DetailRow(u, k - 1, results[u][k]) : k \in 1..Len(results[u])} :
                             u \in DOMAIN results}
    /\ pc' = "reported"
    /\ UNCHANGED <<urls, urls_unique, errors_blocked, futures, taskVars,
                   collected, results, stores>>

Next ==
    \/ Filter
    \/ Submit
    \/ \E i \in Tasks : Start(i)
    \/ \E i \in Tasks : Raise(i)
    \/ \E i \in Tasks : Respond(i)
    \/ \E i \in Tasks : Collect(i)
    \/ Report

Spec == Init /\ [][Next]_vars

\* One URL traced: the caller supplies a single URL. Every request ends (it is
\* answered, fails, or times out after TIMEOUT seconds, line 85), the pool runs
\* a queued item when a worker is free, and the script runs on.
InitSingle == Init /\ Len(urls) <= 1

TracerSpec ==
    /\ InitSingle
    /\ [][Next]_vars
    /\ WF_vars(Filter)
    /\ WF_vars(Submit)
    /\ \A i \in 1..MaxUrls :
          /\ WF_vars(Start(i) \/ Raise(i))
          /\ WF_vars(Respond(i))
          /\ WF_vars(Collect(i))

\* --------------------------------------------- a server that never repeats

\* Every request is answered with a redirect to a URL not handed out before:
\* the path of the URL asked for, one segment longer.
FreshAnswers(url) ==
    IF ~IsAbsolute(url) THEN {Failure}
    ELSE IF Len(Segments(UrlPath(url))) < MaxFresh
         THEN {Reply(302, << <<"Location", UrlPath(url) \o <<"/", "p">>>> >>)}
    ELSE {Reply(200, << >>)}

RespondFresh(i) == RespondWith(i, IF i \in Tasks THEN FreshAnswers(current_url[i]) ELSE {})

PathologicalNext ==
    \/ Filter
    \/ Submit
    \/ \E i \in Tasks : Start(i)
    \/ \E i \in Tasks : Raise(i)
    \/ \E i \in Tasks : RespondFresh(i)
    \/ \E i \in Tasks : Collect(i)
    \/ Report

\* One URL traced against the never-repeating server.
PathologicalSpec == InitSingle /\ [][PathologicalNext]_vars

\* ------------------------------------------- a server with many header sets

\* Header fields a response may carry.
HeaderPool ==
    { <<"Server", <<"nginx">>>>,
      <<"server", <<"nginx">>>>,
      <<"Server", <<"AkamaiGHost">>>>,
      <<"X-Powered-By", <<"PHP">>>>,
      <<"X-Cache", <<"HIT">>>>,
      <<"Via", <<"varnish">>>>,
      <<"Via", <<"AKAMAIGHOST">>>>,
      <<"CF-RAY", <<"7d1">>>>,
      <<"X-Amz-Cf-Id", <<"k9">>>>,
      <<"X-CDN", <<"fastly">>>>,
      <<"X-CDN", <<"edge.akamaitechnologies.com">>>>,
      <<"X-Akamai-Transformed", <<"9">>>>,
      <<"Content-Type", <<"text">>>> }

\* The header sets of up to MaxHeaders fields; a name occurs once, whatever
\* its case (resp.headers is a CaseInsensitiveDict).
HeaderLists ==
    {hs \in SeqsUpTo(HeaderPool, MaxHeaders) :
        \A a, b \in 1..Len(hs) : LowerTok(hs[a][1]) = LowerTok(hs[b][1]) => a = b}

HeaderAnswers(url) ==
    IF ~IsAbsolute(url) THEN {Failure}
    ELSE {Reply(st, hs) : st \in {200, 404}, hs \in HeaderLists}

RespondHeaders(i) == RespondWith(i, IF i \in Tasks THEN HeaderAnswers(current_url[i]) ELSE {})

ServerNext ==
    \/ Filter
    \/ Submit
    \/ \E i \in Tasks : Start(i)
    \/ \E i \in Tasks : Raise(i)
    \/ \E i \in Tasks : RespondHeaders(i)
    \/ \E i \in Tasks : Collect(i)
    \/ Report

ServerSpec == InitSingle /\ [][ServerNext]_vars

\* ---------------------------------- a server that redirects to a blocked URL

\* The server sends every URL to a 'b2b-b' URL, or answers 200, or fails.
BlockedAnswers(url) ==
    IF ~IsAbsolute(url) THEN {Failure}
    ELSE IF url \in DOMAIN served THEN {served[url]}
    ELSE { Reply(301, << <<"Location", Abs("B2B-B.test", "old")>> >>),
           Reply(200, << >>),
           Failure }

RespondBlocked(i) == RespondWith(i, IF i \in Tasks THEN BlockedAnswers(current_url[i]) ELSE {})

InputNext ==
    \/ Filter
    \/ Submit
    \/ \E i \in Tasks : Start(i)
    \/ \E i \in Tasks : Raise(i)
    \/ \E i \in Tasks : RespondBlocked(i)
    \/ \E i \in Tasks : Collect(i)
    \/ Report

InputSpec == Init /\ [][InputNext]_vars

\* ------------------------------------------------ the tracer, run on its own

\* check_redirection_chain(url) run to its return against the answers the
\* server has given (lines 68-114), with nothing else running.
RECURSIVE Trace(_, _, _)
Trace(url, vis, ch) ==
    IF url \in vis THEN Append(ch, LoopHop(url))
    ELSE IF ~IsAbsolute(url) THEN Append(ch, ErrorHop(url))
    ELSE IF url \notin DOMAIN served THEN ch   \* not asked for yet: the trace so far
    ELSE IF served[url].fail THEN Append(ch, ErrorHop(url))
    ELSE LET resp == served[url]
             ch2 == Append(ch, ResponseHop(url, resp))
         IN  IF Continues(resp)
             THEN Trace(NextUrl(url, HeaderValue(resp.headers, "Location")),
                        vis \union {url}, ch2)
             ELSE ch2

TraceAlone(url) == Trace(url, {}, << >>)

\* ------------------------------------------------------------------ claims

Last(ch) == ch[Len(ch)]
IsLoop(h) == h.StatusCode = StrCode("Loop")
IsError(h) == h.StatusCode = StrCode("Error")
IsHttp(h) == h.StatusCode.kind = "int"
Returned(i) == fstate[i] = "returned"
NoDuplicates(q) == \A j, k \in 1..Len(q) : q[j] = q[k] => j = k

\* The Location value the server sent with the response recorded in hop h.
LocationOf(h) == HeaderValue(served[h.URL].headers, "Location")
SentLocation(h) ==
    /\ HasHeader(served[h.URL].headers, "Location")
    /\ HeaderValue(served[h.URL].headers, "Location") # << >>

\* C1 as stated: every chain check_redirection_chain returns is non-empty and
\* its last hop has Status Code 'Loop', 'Error' or a code that is not one of
\* 301, 302, 303, 307, 308.
C1_LastHopNeverRedirect ==
    \A i \in Tasks :
        Returned(i) =>
            /\ Len(chain[i]) >= 1
            /\ \/ IsLoop(Last(chain[i]))
               \/ IsError(Last(chain[i]))
               \/ IsHttp(Last(chain[i])) /\ Last(chain[i]).StatusCode.n \notin RedirectCodes

\* The safety half of C1 amended.
TerminalHop ==
    \A i \in Tasks :
        /\ NoDuplicates(requested[i])
        /\ Len(chain[i]) <= Len(requested[i]) + 1
        /\ Returned(i) =>
            /\ Len(chain[i]) >= 1
            /\ \/ IsLoop(Last(chain[i]))
               \/ IsError(Last(chain[i]))
               \/ IsHttp(Last(chain[i])) /\ Last(chain[i]).StatusCode.n \notin RedirectCodes
               \/ IsHttp(Last(chain[i])) /\ ~SentLocation(Last(chain[i]))

\* C1 amended: a run of check_redirection_chain never requests a URL twice and
\* records at most one hop more than it has made requests, every run that has
\* made a request returns, and the chain returned is non-empty with a last hop
\* that is 'Loop', 'Error', a non-redirect code, or a redirect code whose
\* response carried no usable Location.
C1_TerminatesWithTerminalHop ==
    /\ []TerminalHop
    /\ \A i \in 1..MaxUrls :
          (i \in Tasks /\ fstate[i] = "inflight") ~> (i \in Tasks /\ Returned(i))

\* A returned chain of four hops that went through three redirects.
C1_Witness ==
    \E i \in Tasks :
        /\ Returned(i)
        /\ Len(chain[i]) = 4
        /\ \A k \in 1..3 : IsHttp(chain[i][k]) /\ chain[i][k].StatusCode.n \in RedirectCodes

\* C2: a hop is 'Loop' exactly when its URL was requested at an earlier hop of
\* the same chain; no request is made for it, it is the last hop (hop k of a
\* chain of length k+1, counting from 0), and a first hop redirecting to its own
\* URL gives a chain of two hops.
C2_LoopDetectionExact ==
    \A i \in Tasks :
        /\ \A k \in 1..Len(chain[i]) :
              IsLoop(chain[i][k]) =>
                  /\ k = Len(chain[i])
                  /\ Returned(i)
                  /\ \E j \in 1..(k - 1) : requested[i][j] = chain[i][k].URL
                  /\ Len(requested[i]) = k - 1
        /\ \A j, k \in 1..Len(chain[i]) :
              j < k /\ chain[i][j].URL = chain[i][k].URL => IsLoop(chain[i][k])
        /\ NoDuplicates(requested[i])
        /\ (/\ Len(chain[i]) >= 1
            /\ IsHttp(chain[i][1])
            /\ chain[i][1].StatusCode.n \in RedirectCodes
            /\ SentLocation(chain[i][1])
            /\ NextUrl(chain[i][1].URL, LocationOf(chain[i][1])) = chain[i][1].URL)
           => /\ Returned(i)
              /\ Len(chain[i]) = 2
              /\ IsLoop(chain[i][2])

\* A first hop redirected to its own URL, and a loop closed at the third hop.
C2_Witness ==
    /\ \E i \in Tasks :
          Returned(i) /\ Len(chain[i]) = 2 /\ IsLoop(chain[i][2])
          /\ chain[i][2].URL = chain[i][1].URL
    /\ \E i \in Tasks :
          Returned(i) /\ Len(chain[i]) = 3 /\ IsLoop(chain[i][3])
          /\ chain[i][3].URL = chain[i][1].URL

\* C3: a hop whose status code is outside 300..399 is the last hop of its
\* chain, the function has returned, and no request follows it.
C3_NonRedirectTerminates ==
    \A i \in Tasks :
        \A k \in 1..Len(chain[i]) :
            (IsHttp(chain[i][k]) /\ chain[i][k].StatusCode.n \notin 300..399) =>
                /\ k = Len(chain[i])
                /\ Returned(i)
                /\ Len(requested[i]) = k

\* A chain ended by a 200 that carried a Location header, after a redirect.
C3_Witness ==
    \E i \in Tasks :
        /\ Returned(i)
        /\ Len(chain[i]) = 2
        /\ chain[i][2].StatusCode = IntCode(200)
        /\ SentLocation(chain[i][2])

\* C4 as stated: after a redirect whose Location is not an absolute URL the
\* next hop's URL is urljoin(current URL, Location), and every URL requested in
\* a chain that starts from an absolute URL is absolute.
C4_RelativeLocationResolved ==
    \A i \in Tasks :
        /\ \A k \in 1..(Len(chain[i]) - 1) :
              ~IsAbsolute(LocationOf(chain[i][k])) =>
                  chain[i][k + 1].URL = urljoin(chain[i][k].URL, LocationOf(chain[i][k]))
        /\ IsAbsolute(futures[i]) =>
              \A k \in 1..Len(requested[i]) : IsAbsolute(requested[i][k])

\* C5: never more than MAX_WORKERS tasks are running, so never more than
\* MAX_WORKERS requests are in flight.
C5_ConcurrencyBound == Cardinality(Running) <= MAX_WORKERS

\* More URLs than workers, every worker busy, and a task waiting in the queue.
C5_Witness ==
    /\ Len(urls_unique) > MAX_WORKERS
    /\ Cardinality(Running) = MAX_WORKERS
    /\ \E i \in Tasks : fstate[i] = "queued"

\* C6: whatever the other tasks do or fail at, a task that has returned holds
\* the chain its URL gives when traced alone against the same server, and the
\* result collected for it is that chain (the one-hop Error list for a task
\* that raised); when the run is complete every task has finished and has
\* been collected.
C6_Isolation ==
    /\ \A i \in Tasks : Returned(i) => chain[i] = TraceAlone(futures[i])
    /\ \A i \in collected :
          results[futures[i]] = IF Returned(i) THEN chain[i] ELSE <<ErrorHop(futures[i])>>
    /\ pc = "done" =>
          /\ Len(futures) = Len(urls_unique)
          /\ \A i \in Tasks : fstate[i] \in {"returned", "raised"} /\ i \in collected

\* A complete run in which one URL's request failed, one task raised, and a
\* third URL's chain went through a redirect to a 200.
C6_Witness ==
    /\ pc = "done"
    /\ \E i, j, k \in Tasks :
          /\ IsAbsolute(futures[i]) /\ results[futures[i]] = <<ErrorHop(futures[i])>>
          /\ Returned(i)
          /\ fstate[j] = "raised"
          /\ Len(results[futures[k]]) = 2
          /\ Last(results[futures[k]]).StatusCode = IntCode(200)

\* C7: results never holds a key that was not submitted, each key is assigned at
\* most once and holds the outcome of the task started with that URL, whose
\* first hop is the key; when the run is complete there is exactly one entry
\* per submitted URL.
C7_ResultAssociation ==
    /\ DOMAIN results = {futures[i] : i \in collected}
    /\ \A i \in collected :
          /\ results[futures[i]] = IF Returned(i) THEN chain[i] ELSE <<ErrorHop(futures[i])>>
          /\ results[futures[i]][1].URL = futures[i]
          /\ stores[futures[i]] = 1
    /\ DOMAIN stores = DOMAIN results
    /\ pc = "done" =>
          /\ DOMAIN results = {urls_unique[k] : k \in 1..Len(urls_unique)}
          /\ Cardinality(DOMAIN results) = Len(urls_unique)

\* The third future was collected before the first two had finished, and
\* a complete run of three URLs with three different chains.
C7_WitnessOutOfOrder ==
    /\ pc = "collect"
    /\ collected = {3}
    /\ fstate[1] = "inflight"

C7_Witness ==
    /\ pc = "done"
    /\ Len(urls_unique) = 3
    /\ \A u, v \in DOMAIN results : u # v => results[u] # results[v]
    /\ \E u \in DOMAIN results : Len(results[u]) >= 3

\* C8: when the request for the current URL fails, the step appends exactly
\* one 'Error' hop with that URL to the hops recorded so far and the function
\* returns the chain: the future holds a result, not an exception.
C8_RequestFailureHandled ==
    [][\A i \in Tasks :
          (/\ fstate[i] = "inflight"
           /\ fstate'[i] # "inflight" \/ chain'[i] # chain[i]
           /\ ~IsAbsolute(current_url[i]) \/ served'[current_url[i]].fail)
          => /\ chain'[i] = Append(chain[i], ErrorHop(current_url[i]))
             /\ ErrorHop(current_url[i]).URL = requested[i][Len(requested[i])]
             /\ fstate'[i] = "returned"
             /\ requested'[i] = requested[i]]_vars

\* A transport failure at the third hop, and a URL requests cannot send.
C8_Witness ==
    /\ \E i \in Tasks :
          /\ Returned(i)
          /\ Len(chain[i]) = 3
          /\ IsError(chain[i][3])
          /\ IsAbsolute(chain[i][3].URL)
          /\ IsHttp(chain[i][1]) /\ IsHttp(chain[i][2])
    /\ \E i \in Tasks :
          Returned(i) /\ chain[i] = <<ErrorHop(futures[i])>> /\ ~IsAbsolute(futures[i])

\* C9: a hop with a redirect code whose response had no Location header, or an
\* empty one, is the last hop of its chain; the function has returned and made
\* no further request.
C9_MissingLocationCompletes ==
    \A i \in Tasks :
        \A k \in 1..Len(chain[i]) :
            (/\ IsHttp(chain[i][k])
             /\ chain[i][k].StatusCode.n \in RedirectCodes
             /\ ~SentLocation(chain[i][k])) =>
                /\ k = Len(chain[i])
                /\ Returned(i)
                /\ Len(requested[i]) = k

\* One chain ended by a redirect without the header, another by one with an
\* empty header.
C9_Witness ==
    /\ \E i \in Tasks :
          /\ Returned(i)
          /\ IsHttp(Last(chain[i])) /\ Last(chain[i]).StatusCode.n \in RedirectCodes
          /\ ~HasHeader(served[Last(chain[i]).URL].headers, "Location")
    /\ \E i \in Tasks :
          /\ Returned(i)
          /\ IsHttp(Last(chain[i])) /\ Last(chain[i]).StatusCode.n \in RedirectCodes
          /\ HasHeader(served[Last(chain[i]).URL].headers, "Location")
          /\ LocationOf(Last(chain[i])) = << >>

\* C10: a returned chain has at least one hop and its first hop's URL is the
\* starting URL; every entry of results is a non-empty chain.
C10_NonEmptyChains ==
    /\ \A i \in Tasks :
          Returned(i) => Len(chain[i]) >= 1 /\ chain[i][1].URL = futures[i]
    /\ \A u \in DOMAIN results : Len(results[u]) >= 1

\* A complete run whose three results end in Loop, in Error and in a response,
\* the Error one being the entry of a task that raised.
C10_Witness ==
    /\ pc = "done"
    /\ \E u, v, w \in DOMAIN results :
          /\ IsLoop(Last(results[u]))
          /\ IsError(Last(results[v]))
          /\ IsHttp(Last(results[w]))
    /\ \E i \in Tasks : fstate[i] = "raised"

\* C11 as stated: check_redirection_chain stops at a ceiling, so no chain is
\* ever longer than 50 hops, even when every answer redirects to a new URL.
C11_HopCeiling ==
    \A i \in Tasks : Len(chain[i]) <= 50

\* C12 as stated: after the run every submitted URL has exactly one summary
\* row, which holds the URL, the last hop's URL, status code and server, and
\* the hop count, the length of that URL's chain.
C12_SummaryRecord ==
    pc = "reported" =>
        \A k \in 1..Len(urls_unique) :
            LET u == urls_unique[k]
                rows == {r \in df_summary : r.OriginalURL = u}
            IN  /\ Cardinality(rows) = 1
                /\ \A r \in rows :
                      /\ r.FinalURL = Last(results[u]).URL
                      /\ r.StatusCode = Last(results[u]).StatusCode
                      /\ r.Server = Last(results[u]).Server
                      /\ "HopCount" \in DOMAIN r
                      /\ r.HopCount = Len(results[u])

\* The URL a Location value names when it comes with the response for base.
Resolved(base, loc) == IF IsAbsolute(loc) THEN loc ELSE urljoin(base, loc)

\* C13 as stated: a task has at most one request more than it has recorded
\* hops, every hop after the first has the URL that the Location of the hop
\* before it resolves to, and a 301 with a path Location, then a 302 naming
\* another host, then a 200 give three hops ending at the other host.
C13_SequentialHops ==
    \A i \in Tasks :
        /\ Len(requested[i]) <= Len(chain[i]) + 1
        /\ \A k \in 1..Len(requested[i]) :
              k <= Len(chain[i]) => chain[i][k].URL = requested[i][k]
        /\ \A k \in 1..(Len(chain[i]) - 1) :
              chain[i][k + 1].URL = Resolved(chain[i][k].URL, LocationOf(chain[i][k]))
        /\ (/\ Returned(i)
            /\ Len(chain[i]) >= 3
            /\ chain[i][1].StatusCode = IntCode(301)
            /\ chain[i][2].StatusCode = IntCode(302)
            /\ chain[i][3].StatusCode = IntCode(200))
           => /\ Len(chain[i]) = 3
              /\ Last(chain[i]).URL = Resolved(chain[i][2].URL, LocationOf(chain[i][2]))

\* C14 as stated: the hop appended for a revisited URL has that URL, Status
\* Code 'Loop', Server 'N/A' and the label 'Redirect Loop'.
C14_LoopHopAsStated ==
    \A i \in Tasks :
        (Returned(i) /\ Len(chain[i]) = Len(requested[i]) + 1) =>
            /\ \E k \in 1..Len(requested[i]) : requested[i][k] = Last(chain[i]).URL
            /\ Last(chain[i]).StatusCode = StrCode("Loop")
            /\ Last(chain[i]).Server = <<"N/A">>
            /\ Last(chain[i]).Status = "Redirect Loop"

\* C14 amended: the hop appended for a revisited URL (the one hop a task
\* records without a request) has that URL, Status Code 'Loop', Server 'N/A'
\* and the label 'Loop detected'; no other hop has Status Code 'Loop'.
C14_LoopHopContents ==
    \A i \in Tasks :
        /\ (Returned(i) /\ Len(chain[i]) = Len(requested[i]) + 1) =>
              /\ Last(chain[i]).URL = current_url[i]
              /\ \E k \in 1..Len(requested[i]) : requested[i][k] = Last(chain[i]).URL
              /\ Last(chain[i]).StatusCode = StrCode("Loop")
              /\ Last(chain[i]).Server = <<"N/A">>
              /\ Last(chain[i]).Status = "Loop detected"
        /\ \A k \in 1..Len(chain[i]) :
              IsLoop(chain[i][k]) => k = Len(requested[i]) + 1

\* A chain whose fourth hop is the loop hop, for the URL of its second hop.
C14_Witness ==
    \E i \in Tasks :
        /\ Returned(i)
        /\ Len(chain[i]) = 4
        /\ Len(requested[i]) = 3
        /\ Last(chain[i]).URL = chain[i][2].URL
        /\ Last(chain[i]).URL # chain[i][1].URL

\* C15: in every step each chain's old contents are a prefix of its new
\* contents, a chain whose function has returned does not change, an entry
\* of results stays as it was stored, and building the summary and the per-hop
\* rows leaves chains and results as they were, the rows repeating the hops in
\* order.
C15_AppendOnly ==
    [][/\ \A i \in Tasks :
             /\ Len(chain'[i]) >= Len(chain[i])
             /\ SubSeq(chain'[i], 1, Len(chain[i])) = chain[i]
             /\ Returned(i) => chain'[i] = chain[i] /\ fstate'[i] = fstate[i]
       /\ \A u \in DOMAIN results :
             u \in DOMAIN results' /\ results'[u] = results[u]
       /\ pc' = "reported" =>
             /\ chain' = chain
             /\ results' = results
             /\ \A u \in DOMAIN results :
                   \A k \in 1..Len(results[u]) :
                       \E r \in all_rows' :
                           /\ r.OriginalURL = u
                           /\ r.RedirectStep = k
                           /\ r.RedirectedURL = results[u][k].URL
                           /\ r.StatusCode = results[u][k].StatusCode
                           /\ r.StatusDescription = results[u][k].Status
                           /\ r.Server = results[u][k].Server]_vars

\* A reported run with a chain of two responses and then an Error hop, all
\* three among the per-hop rows.
C15_Witness ==
    /\ pc = "reported"
    /\ \E i \in Tasks :
          /\ Len(chain[i]) = 3
          /\ IsHttp(chain[i][1]) /\ IsHttp(chain[i][2]) /\ IsError(chain[i][3])
          /\ results[futures[i]] = chain[i]
          /\ \A k \in 1..3 :
                \E r \in all_rows : r.OriginalURL = futures[i] /\ r.RedirectStep = k

\* C16: a task's visited set holds exactly the URLs that task has requested,
\* and a Loop hop's URL is the URL of an earlier hop of the same chain,
\* whatever the other tasks have visited.
C16_PrivateVisited ==
    \A i \in Tasks :
        /\ visited[i] = {requested[i][k] : k \in 1..Len(requested[i])}
        /\ \A k \in 1..Len(chain[i]) :
              IsLoop(chain[i][k]) =>
                  \E j \in 1..(k - 1) : chain[i][j].URL = chain[i][k].URL
        /\ (Returned(i) /\ NoDuplicates([k \in 1..Len(chain[i]) |-> chain[i][k].URL])) =>
              ~IsLoop(Last(chain[i]))

\* One task has gone through an intermediate URL and returned without a Loop
\* hop while another task, started elsewhere, has a request for that same URL
\* in flight.
C16_Witness ==
    \E i, j \in Tasks :
        /\ i # j
        /\ Returned(i)
        /\ \A k \in 1..Len(chain[i]) : ~IsLoop(chain[i][k])
        /\ fstate[j] = "inflight"
        /\ current_url[j] \in visited[i]
        /\ current_url[j] # futures[j]
        /\ current_url[j] # futures[i]

\* C17: the entry stored for a future that raised is one hop with the
\* submitted URL, Status 'Error', Status Code 'Error' and Server 'N/A'; the
\* futures that returned have their chains stored, and at the end of the run
\* every submitted URL has an entry.
C17_TaskFailureResult ==
    /\ \A i \in collected :
          fstate[i] = "raised" =>
              results[futures[i]] =
                  <<[URL |-> futures[i], Status |-> "Error",
                     StatusCode |-> StrCode("Error"), Server |-> <<"N/A">>]>>
    /\ \A i \in collected : Returned(i) => results[futures[i]] = chain[i]
    /\ pc \in {"done", "reported"} =>
          \A k \in 1..Len(urls_unique) : urls_unique[k] \in DOMAIN results

\* The first future raised and was collected; the futures after it were
\* collected later, one of them with a chain of two hops.
C17_Witness ==
    /\ pc = "done"
    /\ Len(futures) = 3
    /\ fstate[1] = "raised"
    /\ Returned(2) /\ Returned(3)
    /\ Len(results[futures[3]]) = 2
    /\ IsHttp(Last(results[futures[3]]))

\* The lower-case tokens that hold an Akamai marker.
AkamaiTokens == {"akamaighost", "edge.akamaitechnologies.com", "x-akamai-transformed"}

\* Some header name or value of hs holds an Akamai marker, in any case.
HasAkamaiMarker(hs) ==
    \E p \in 1..Len(hs) :
        \/ LowerTok(hs[p][1]) \in AkamaiTokens
        \/ \E q \in 1..Len(hs[p][2]) : LowerTok(hs[p][2][q]) \in AkamaiTokens

PriorityOrder ==
    <<"Server", "X-Powered-By", "X-Cache", "Via", "CF-RAY", "X-Amz-Cf-Id", "X-CDN">>

\* C18: the Server of a recorded response is 'Akamai' when a marker occurs in
\* a header name or value, in any case and whatever else is sent; otherwise
\* it is 'key: value' of the first header of the priority order that is
\* present; otherwise 'Unknown'.
C18_ServerClassification ==
    \A i \in Tasks :
        \A k \in 1..Len(chain[i]) :
            IsHttp(chain[i][k]) =>
                LET hs == served[chain[i][k].URL].headers
                    present == {n \in 1..Len(PriorityOrder) : HasHeader(hs, PriorityOrder[n])}
                IN  IF HasAkamaiMarker(hs) THEN chain[i][k].Server = <<"Akamai">>
                    ELSE IF present # {}
                         THEN \E n \in present :
                                 /\ \A m \in present : n <= m
                                 /\ chain[i][k].Server =
                                       <<PriorityOrder[n], ": ">> \o HeaderValue(hs, PriorityOrder[n])
                    ELSE chain[i][k].Server = <<"Unknown">>

\* A response with a Server header first and an Akamai marker in a later
\* header's value was recorded as 'Akamai'.
C18_Witness ==
    \E i \in Tasks :
        /\ Returned(i)
        /\ Len(chain[i]) = 1
        /\ IsHttp(chain[i][1])
        /\ served[futures[i]].headers =
              << <<"Server", <<"nginx">>>>, <<"Via", <<"AKAMAIGHOST">>>> >>
        /\ chain[i][1].Server = <<"Akamai">>

BlockedText(url) == \E q \in 1..Len(url) : LowerTok(url[q]) = "b2b-b.test"

\* Where x first occurs in the sequence q.
FirstIndex(q, x) == CHOOSE k \in 1..Len(q) : q[k] = x /\ \A j \in 1..(k - 1) : q[j] # x

\* The filter's result and the tasks made from it.
DispatchList ==
    pc # "filter" =>
        /\ NoDuplicates(urls_unique)
        /\ \A k \in 1..Len(urls_unique) : ~BlockedText(urls_unique[k])
        /\ {urls_unique[k] : k \in 1..Len(urls_unique)} =
              {urls[k] : k \in {n \in 1..Len(urls) : ~BlockedText(urls[n])}}
        /\ \A a, b \in 1..Len(urls_unique) :
              a < b => FirstIndex(urls, urls_unique[a]) < FirstIndex(urls, urls_unique[b])
        /\ Len(futures) <= Len(urls_unique)
        /\ \A i \in Tasks : futures[i] = urls_unique[i]
        /\ pc \in {"collect", "done", "reported"} => Len(futures) = Len(urls_unique)
        /\ \A i \in Tasks : requested[i] # << >> => requested[i][1] = futures[i]

\* C20 as stated: urls_unique has no duplicates and no 'b2b-b' URL, holds
\* the non-blocked inputs in first-occurrence order, each entry gets one
\* task, and no task ever requests a URL containing 'b2b-b'.
C20_AsStated ==
    /\ DispatchList
    /\ \A i \in Tasks : \A k \in 1..Len(requested[i]) : ~BlockedText(requested[i][k])

\* C20 amended: urls_unique has no duplicates and no 'b2b-b' URL, holds the
\* non-blocked inputs in first-occurrence order, each entry gets one task,
\* and no task starts from a URL containing 'b2b-b'.
C20_DispatchList ==
    /\ DispatchList
    /\ \A i \in Tasks : ~BlockedText(futures[i])

\* Of three inputs the blocked one was set aside and the other two were
\* traced in input order; the first was redirected to a 'b2b-b' URL, which
\* was requested.
C20_Witness ==
    /\ pc = "done"
    /\ Len(urls) = 3
    /\ BlockedText(urls[2])
    /\ errors_blocked = <<urls[2]>>
    /\ urls_unique = <<urls[1], urls[3]>>
    /\ Len(requested[1]) = 2
    /\ BlockedText(requested[1][2])

====
